---- MODULE Spec2Model ----
(***************************************************************************)
(* Model of the AXI DMA driver's control plane:                            *)
(*   - the character device (axidma_chrdev.c): axidma_open,                *)
(*     axidma_release, axidma_mmap, axidma_chrdev_init, axidma_chrdev_exit *)
(*   - the device tree parser (axidma_of.c): axidma_of_num_channels,       *)
(*     axidma_of_parse_dma_nodes, axidma_of_parse_dma_name                 *)
(* Spec   is the character device (the "Session Manager" of the design).   *)
(* SpecOf is the device tree parser (the "Topology Resolver").             *)
(***************************************************************************)
EXTENDS Integers, Sequences, FiniteSets, TLC

(***************************************************************************)
(* Bounds of the model.                                                    *)
(***************************************************************************)
\* number of struct file objects (calling contexts) contending for the device
NumFiles == 2
\* size of the device's DMA buffer region, in pages
BufPages == 2
\* largest vm_pgoff (requested offset, in pages) a caller passes to mmap
MaxPgoff == 1
\* largest number of entries of the 'dmas' and 'dma-names' properties, and of
\* dev->num_chans
MaxChans == 2

(***************************************************************************)
(* Kernel constants the handlers use.                                      *)
(***************************************************************************)
EPERM == 1
EINVAL == 22
ENOMEM == 12
EAGAIN == 11
ENOENT == 2
ENODATA == 61
PAGE_SHIFT == 12
\* start of the kernel's linear mapping (a 1G/3G split), used by virt_to_phys
PAGE_OFFSET == 1073741824

PAGE_SIZE == 2 ^ PAGE_SHIFT

Files == 1 .. NumFiles

\* the four resources axidma_chrdev_init acquires, in acquisition order
Resources == <<"chrdev_region", "dev_class", "device", "chrdev">>

\* the results remap_pfn_range can produce
RemapResults == {0, -ENOMEM, -EAGAIN}

\* the page counts a caller may ask mmap for: one page, the whole buffer, and
\* one page more than the buffer
MapPages == {1, BufPages, BufPages + 1}

\* length in bytes of the device's DMA buffer region, which starts at
\* axidma_dev->dma_base_vaddr; axidma_chrdev.c never reads it
buffer_length == BufPages * PAGE_SIZE

VARIABLES
    axidma_dev,     \* the file-scope pointer "static struct axidma_device *axidma_dev"
    dma_base_vaddr, \* axidma_dev->dma_base_vaddr, kernel virtual address of the buffer
    held,           \* the registration resources currently held by the device
    private_data,   \* file->private_data of every struct file
    pc,             \* where each file's open call stands
    mapped,         \* the (vm_pgoff, pfn) pairs remap_pfn_range has mapped
    reached_ready,  \* axidma_chrdev_init has completed successfully at least once
    race,           \* the files whose open calls overlapped while no session was live
    last,           \* the handler that returned last, its arguments and its result
    dma_names,      \* the 'dma-names' property of the driver's device tree node
    dmas,           \* the 'dmas' property of the driver's device tree node
    dev,            \* the axidma_device fields the parser writes
    of_last         \* the parser function that returned last and its result

chrdev_vars == <<axidma_dev, dma_base_vaddr, held, private_data, pc, mapped,
                 reached_ready, race, last>>

of_vars == <<dma_names, dmas, dev, of_last>>

vars == <<chrdev_vars, of_vars>>

NoRemap == [called |-> FALSE, pfn |-> 0, size |-> 0, prot |-> "none"]

NoCall == [op |-> "none", f |-> 0, ret |-> 0, capable |-> FALSE, excl |-> FALSE,
           pgoff |-> 0, len |-> 0, rc |-> 0, remap |-> NoRemap,
           acq |-> <<>>, rel |-> <<>>]

\* the files that hold a session: open stored the device in their private_data
Live == {f \in Files : private_data[f] # "NULL"}

\* the character device is registered: cdev_add has made axidma_fops reachable
Registered == "chrdev" \in held

(***************************************************************************)
(* Address conversions of axidma_mmap.                                     *)
(***************************************************************************)
virt_to_phys(addr) == addr - PAGE_OFFSET

phys_to_pfn(paddr) == paddr \div PAGE_SIZE

pgprot_noncached(prot) == "noncached"

(***************************************************************************)
(* The device tree as the parser reads it.  A property is present or not   *)
(* and holds a list; a 'dmas' entry names a DMA node and carries the       *)
(* arguments its #dma-cells gives it; a DMA node is the list of its child  *)
(* nodes; a child node has a 'compatible' property that is absent, has no  *)
(* string value, or is a string.                                           *)
(***************************************************************************)
Child(compatible) == [prop |-> "string", compatible |-> compatible]

NoCompatible == [prop |-> "absent", compatible |-> ""]

BadCompatible == [prop |-> "nodata", compatible |-> ""]

DmaNode == <<Child("xlnx,axi-dma-mm2s-channel"), Child("xlnx,axi-dma-s2mm-channel")>>

VdmaNode == <<Child("xlnx,axi-vdma-mm2s-channel"), Child("xlnx,axi-vdma-s2mm-channel")>>

RxOnlyNode == <<Child("xlnx,axi-vdma-s2mm-channel")>>

EmptyNode == << >>

ThreeNode == <<Child("xlnx,axi-dma-mm2s-channel"), Child("xlnx,axi-dma-s2mm-channel"),
               Child("xlnx,axi-dma-s2mm-channel")>>

OddNode == <<Child("xlnx,axi-cdma-channel"), NoCompatible>>

UnreadableNode == <<BadCompatible>>

Ref(np, args) == [np |-> np, args |-> args]

\* the 'dmas' entries of the model: every accepted shape and every rejected one
RefPool ==
    {Ref(np, args) : np \in {DmaNode, VdmaNode, RxOnlyNode}, args \in {<<0>>, <<1>>}}
    \cup {Ref(DmaNode, args) : args \in {<< >>, <<2>>, <<1, 0>>}}
    \cup {Ref(np, <<0>>) : np \in {EmptyNode, ThreeNode, OddNode, UnreadableNode}}
    \cup {Ref(OddNode, <<1>>)}

\* the names the 'dma-names' property lists, in order
NameSeq == <<"tx_channel", "rx_channel", "tx2_channel", "rx2_channel">>

SeqsUpTo(S, n) == UNION {[1 .. k -> S] : k \in 0 .. n}

Property(list) == [present |-> TRUE, list |-> list]

MissingProperty == [present |-> FALSE, list |-> << >>]

NoChan == [type |-> "none", dir |-> "none", channel_id |-> -1]

\* the axidma_device before the parser has run on it
FreshDev(n) ==
    [num_chans |-> n,
     channels |-> [i \in 0 .. (n - 1) |-> NoChan],
     num_dma_tx_chans |-> 0, num_dma_rx_chans |-> 0,
     num_vdma_tx_chans |-> 0, num_vdma_rx_chans |-> 0]

\* err is the message the function logged with axidma_node_err ("" when none);
\* parses counts the calls of axidma_of_parse_dma_nodes so far, up to two
NoOfCall == [op |-> "none", rc |-> 0, err |-> "", index |-> 0, name |-> "", parses |-> 0]

InitChrdev ==
    /\ axidma_dev = "NULL"
    /\ held = {}
    /\ private_data = [f \in Files |-> "NULL"]
    /\ pc = [f \in Files |-> "idle"]
    /\ mapped = {}
    /\ reached_ready = FALSE
    /\ race = {}
    /\ last = NoCall

Init ==
    /\ InitChrdev
    /\ dma_base_vaddr = PAGE_OFFSET + 16 * PAGE_SIZE
    /\ dma_names = Property(SubSeq(NameSeq, 1, 2))
    /\ dmas = Property(<<Ref(DmaNode, <<0>>), Ref(DmaNode, <<1>>)>>)
    /\ dev = FreshDev(2)
    /\ of_last = NoOfCall

(***************************************************************************)
(* axidma_open: the privilege and O_EXCL checks, then the store of the     *)
(* device into file->private_data.  The two halves are separate steps so   *)
(* that the open calls of different files interleave.                      *)
(***************************************************************************)
\* a variant that tests O_EXCL before the privilege
axidma_open_check_excl_first(capable, excl) ==
    IF ~excl THEN -EINVAL
    ELSE IF ~capable THEN -EPERM
    ELSE 0

\* the checks of axidma_open: 0 when the caller passes them
axidma_open_check(capable, excl) ==
    IF ~capable THEN -EPERM
    ELSE IF ~excl THEN -EINVAL
    ELSE 0

axidma_open_begin(f, capable, excl) ==
    /\ Registered
    /\ pc[f] = "idle"
    /\ private_data[f] = "NULL"
    /\ LET rc == axidma_open_check(capable, excl) IN
       IF rc < 0
       THEN /\ last' = [NoCall EXCEPT !.op = "open", !.f = f, !.ret = rc,
                                      !.capable = capable, !.excl = excl]
            /\ UNCHANGED <<pc, race>>
       ELSE /\ pc' = [pc EXCEPT ![f] = "open41"]
            /\ race' = IF Live = {} /\ (\E g \in Files \ {f} : pc[g] = "open41")
                       THEN {g \in Files : pc'[g] = "open41"}
                       ELSE race
            /\ UNCHANGED last
    /\ UNCHANGED <<axidma_dev, dma_base_vaddr, held, private_data, mapped,
                   reached_ready>>

\* the value axidma_open leaves in file->private_data
axidma_open_private_data(device) == device

axidma_open_store(f) ==
    /\ pc[f] = "open41"
    /\ private_data' = [private_data EXCEPT ![f] = axidma_open_private_data(axidma_dev)]
    /\ pc' = [pc EXCEPT ![f] = "idle"]
    /\ last' = [NoCall EXCEPT !.op = "open", !.f = f, !.ret = 0,
                              !.capable = TRUE, !.excl = TRUE]
    /\ UNCHANGED <<axidma_dev, dma_base_vaddr, held, mapped, reached_ready, race>>

(***************************************************************************)
(* axidma_release: called on a file whose open succeeded.                  *)
(***************************************************************************)
\* a variant that leaves the association in place
axidma_release_private_data_kept(old) == old

\* the value axidma_release leaves in file->private_data
axidma_release_private_data(old) == "NULL"

axidma_release(f) ==
    /\ pc[f] = "idle"
    /\ private_data[f] # "NULL"
    /\ private_data' = [private_data EXCEPT
                            ![f] = axidma_release_private_data(private_data[f])]
    /\ race' = {}
    /\ last' = [NoCall EXCEPT !.op = "release", !.f = f, !.ret = 0]
    /\ UNCHANGED <<axidma_dev, dma_base_vaddr, held, pc, mapped, reached_ready>>

(***************************************************************************)
(* axidma_mmap(file, vma), reached through axidma_fops on a file whose     *)
(* open succeeded and that has not been released.  The handler never reads *)
(* file->private_data: it reaches the device through axidma_dev, whether   *)
(* or not the device is still registered.  rc is the result of             *)
(* remap_pfn_range.                                                        *)
(***************************************************************************)
\* the vm_area_struct of a request for npages pages at page offset pgoff
Vma(pgoff, npages) ==
    [vm_start |-> 16 * PAGE_SIZE, vm_end |-> (16 + npages) * PAGE_SIZE,
     vm_pgoff |-> pgoff, vm_page_prot |-> "cached"]

\* the arguments axidma_mmap passes to remap_pfn_range
axidma_mmap_remap(vma, addr) ==
    [called |-> TRUE,
     pfn |-> phys_to_pfn(virt_to_phys(addr)),
     size |-> vma.vm_end - vma.vm_start,
     prot |-> pgprot_noncached(vma.vm_page_prot)]

\* a variant that replaces the cause of the failure by -EINVAL
axidma_mmap_ret_einval(rc) == IF rc < 0 THEN -EINVAL ELSE 0

\* the value axidma_mmap returns when remap_pfn_range returned rc
axidma_mmap_ret(rc) == IF rc < 0 THEN rc ELSE 0

axidma_mmap(f, pgoff, npages, rc) ==
    /\ pc[f] = "idle"
    /\ private_data[f] # "NULL"
    /\ LET vma == Vma(pgoff, npages)
           call == axidma_mmap_remap(vma, dma_base_vaddr)
       IN /\ mapped' = IF rc < 0 THEN mapped
                       ELSE mapped \cup {[pgoff |-> pgoff, pfn |-> call.pfn]}
          /\ last' = [NoCall EXCEPT !.op = "mmap", !.f = f,
                                    !.ret = axidma_mmap_ret(rc),
                                    !.pgoff = pgoff, !.len = call.size,
                                    !.rc = rc, !.remap = call]
    /\ UNCHANGED <<axidma_dev, dma_base_vaddr, held, private_data, pc,
                   reached_ready, race>>

(***************************************************************************)
(* axidma_chrdev_init and axidma_chrdev_exit.  fail is the acquisition     *)
(* step that fails (1..4), or 0 when all four succeed.                     *)
(***************************************************************************)
\* the error codes a failing acquisition step can return
InitErrors == {-ENOMEM, -EAGAIN}

\* the elements of a sequence
Range(seq) == {seq[i] : i \in 1 .. Len(seq)}

\* the acquisitions that succeed, in program order, when step fail fails
chrdev_init_acquire_seq(fail) ==
    SubSeq(Resources, 1, IF fail = 0 THEN 4 ELSE fail - 1)

\* what the cleanup labels device_cleanup, class_cleanup and
\* free_chrdev_region release, in the order control falls through them
CleanupLabels == <<"device", "dev_class", "chrdev_region">>

\* a variant that enters the cleanup code one label too late
chrdev_init_goto_late(fail) == IF fail = 1 THEN 4 ELSE 6 - fail

\* the label the goto of failing step fail jumps to; 4 is the label ret
chrdev_init_goto(fail) == 5 - fail

\* the releases the cleanup code performs, in order, when step fail fails
chrdev_init_unwind_seq(fail) ==
    IF fail = 0 THEN <<>>
    ELSE SubSeq(CleanupLabels, chrdev_init_goto(fail), 3)

\* the releases axidma_chrdev_exit performs, in order
chrdev_exit_seq == <<"chrdev", "device", "dev_class", "chrdev_region">>

\* the resources acquired before step fail fails
chrdev_init_acquired(fail) == Range(chrdev_init_acquire_seq(fail))

\* the resources the cleanup labels release when step fail fails
chrdev_init_unwound(fail) == Range(chrdev_init_unwind_seq(fail))

axidma_chrdev_init(fail, err) ==
    /\ held = {}
    /\ axidma_dev' = "dev"
    /\ held' = chrdev_init_acquired(fail) \ chrdev_init_unwound(fail)
    /\ reached_ready' = (reached_ready \/ fail = 0)
    /\ last' = [NoCall EXCEPT !.op = "init",
                              !.rc = IF fail = 0 THEN 0 ELSE err,
                              !.ret = IF fail = 0 THEN 0 ELSE err,
                              !.acq = chrdev_init_acquire_seq(fail),
                              !.rel = chrdev_init_unwind_seq(fail)]
    /\ UNCHANGED <<dma_base_vaddr, private_data, pc, mapped, race>>

axidma_chrdev_exit ==
    /\ held = {Resources[i] : i \in 1 .. 4}
    /\ held' = held \ Range(chrdev_exit_seq)
    /\ last' = [NoCall EXCEPT !.op = "exit", !.rel = chrdev_exit_seq]
    /\ UNCHANGED <<axidma_dev, dma_base_vaddr, private_data, pc, mapped,
                   reached_ready, race>>

OpenBegin ==
    /\ \E f \in Files, capable \in BOOLEAN, excl \in BOOLEAN :
           axidma_open_begin(f, capable, excl)
    /\ UNCHANGED of_vars

OpenStore == (\E f \in Files : axidma_open_store(f)) /\ UNCHANGED of_vars

Release == (\E f \in Files : axidma_release(f)) /\ UNCHANGED of_vars

Mmap ==
    /\ \E f \in Files, pgoff \in 0 .. MaxPgoff, npages \in MapPages, rc \in RemapResults :
           axidma_mmap(f, pgoff, npages, rc)
    /\ UNCHANGED of_vars

ChrdevInit ==
    /\ \E fail \in 0 .. 4, err \in InitErrors : axidma_chrdev_init(fail, err)
    /\ UNCHANGED of_vars

ChrdevExit == axidma_chrdev_exit /\ UNCHANGED of_vars

Next ==
    \/ OpenBegin
    \/ OpenStore
    \/ Release
    \/ Mmap
    \/ ChrdevInit
    \/ ChrdevExit

Spec == Init /\ [][Next]_vars

(***************************************************************************)
(* The kernel's device tree accessors, as axidma_of.c uses them.  A child  *)
(* node is named by its position in the DMA node; 0 is the NULL node.      *)
(***************************************************************************)
of_property_count_strings(prop) ==
    IF ~prop.present THEN -EINVAL
    ELSE IF Len(prop.list) = 0 THEN -ENODATA
    ELSE Len(prop.list)

of_count_phandle_with_args(prop) ==
    IF ~prop.present THEN -ENOENT ELSE Len(prop.list)

of_parse_phandle_with_args(prop, index) ==
    IF ~prop.present \/ index >= Len(prop.list)
    THEN [rc |-> -ENOENT, np |-> << >>, args |-> << >>, args_count |-> 0]
    ELSE [rc |-> 0, np |-> prop.list[index + 1].np, args |-> prop.list[index + 1].args,
          args_count |-> Len(prop.list[index + 1].args)]

of_property_read_string_index(prop, index) ==
    IF ~prop.present THEN [rc |-> -EINVAL, str |-> ""]
    ELSE IF index >= Len(prop.list) THEN [rc |-> -ENODATA, str |-> ""]
    ELSE [rc |-> 0, str |-> prop.list[index + 1]]

\* a variant that reports at most two children
of_get_child_count_capped(node) == IF Len(node) > 2 THEN 2 ELSE Len(node)

of_get_child_count(node) == Len(node)

\* a variant that stays on the last child instead of returning NULL
of_get_next_child_clamped(node, prev) == IF prev + 1 <= Len(node) THEN prev + 1 ELSE prev

of_get_next_child(node, prev) == IF prev + 1 <= Len(node) THEN prev + 1 ELSE 0

\* of_find_property(child, "compatible", NULL) != NULL
of_find_compatible(node, child) == child # 0 /\ node[child].prop # "absent"

\* of_property_read_string(child, "compatible", &compatible)
of_read_compatible(node, child) ==
    IF node[child].prop = "string"
    THEN [rc |-> 0, str |-> node[child].compatible]
    ELSE [rc |-> -ENODATA, str |-> ""]

(***************************************************************************)
(* axidma_parse_compatible_property: the channel's type and direction from *)
(* its compatible string, and the device's counter of that kind.  d is the *)
(* device, i the index of the channel being filled in.                     *)
(***************************************************************************)
SetChan(d, i, type, dir) ==
    [d EXCEPT !.channels[i].type = type, !.channels[i].dir = dir]

\* a variant whose last branch takes any other string for a DMA transmit channel
axidma_parse_compatible_property_default(compatible, i, d) ==
    IF compatible = "xlnx,axi-dma-s2mm-channel"
    THEN [rc |-> 0, dev |-> [SetChan(d, i, "AXIDMA_DMA", "AXIDMA_READ") EXCEPT
                                 !.num_dma_rx_chans = @ + 1]]
    ELSE IF compatible = "xlnx,axi-vdma-mm2s-channel"
    THEN [rc |-> 0, dev |-> [SetChan(d, i, "AXIDMA_VDMA", "AXIDMA_WRITE") EXCEPT
                                 !.num_vdma_tx_chans = @ + 1]]
    ELSE IF compatible = "xlnx,axi-vdma-s2mm-channel"
    THEN [rc |-> 0, dev |-> [SetChan(d, i, "AXIDMA_VDMA", "AXIDMA_READ") EXCEPT
                                 !.num_dma_rx_chans = @ + 1]]
    ELSE [rc |-> 0, dev |-> [SetChan(d, i, "AXIDMA_DMA", "AXIDMA_WRITE") EXCEPT
                                 !.num_dma_tx_chans = @ + 1]]

axidma_parse_compatible_property(compatible, i, d) ==
    IF compatible = "xlnx,axi-dma-mm2s-channel"
    THEN [rc |-> 0, dev |-> [SetChan(d, i, "AXIDMA_DMA", "AXIDMA_WRITE") EXCEPT
                                 !.num_dma_tx_chans = @ + 1]]
    ELSE IF compatible = "xlnx,axi-dma-s2mm-channel"
    THEN [rc |-> 0, dev |-> [SetChan(d, i, "AXIDMA_DMA", "AXIDMA_READ") EXCEPT
                                 !.num_dma_rx_chans = @ + 1]]
    ELSE IF compatible = "xlnx,axi-vdma-mm2s-channel"
    THEN [rc |-> 0, dev |-> [SetChan(d, i, "AXIDMA_VDMA", "AXIDMA_WRITE") EXCEPT
                                 !.num_vdma_tx_chans = @ + 1]]
    ELSE IF compatible = "xlnx,axi-vdma-s2mm-channel"
    THEN [rc |-> 0, dev |-> [SetChan(d, i, "AXIDMA_VDMA", "AXIDMA_READ") EXCEPT
                                 !.num_dma_rx_chans = @ + 1]]
    ELSE [rc |-> -EINVAL, dev |-> d]

\* a failure of axidma_of_parse_channel or of the loop, with its message
Fail(rc, err, d) == [rc |-> rc, err |-> err, dev |-> d]

(***************************************************************************)
(* axidma_of_parse_channel: the child node the selector names, its         *)
(* compatible string, and the channel it describes.                        *)
(***************************************************************************)
axidma_of_parse_channel(dma_node, channel, i, d) ==
    IF of_get_child_count(dma_node) < 1
    THEN Fail(-EINVAL, "DMA does not have any channel nodes", d)
    ELSE IF of_get_child_count(dma_node) > 2
    THEN Fail(-EINVAL, "DMA has more than two channel nodes", d)
    ELSE LET first == of_get_next_child(dma_node, 0)
             dma_chan_node == IF channel = 1 THEN of_get_next_child(dma_node, first)
                              ELSE first
         IN IF ~of_find_compatible(dma_node, dma_chan_node)
            THEN Fail(-EINVAL, "DMA channel is missing the 'compatible' property", d)
            ELSE LET str == of_read_compatible(dma_node, dma_chan_node)
                 IN IF str.rc < 0
                    THEN Fail(-EINVAL, "Unable to read 'compatible' property", d)
                    ELSE LET r == axidma_parse_compatible_property(str.str, i, d)
                         IN IF r.rc < 0
                            THEN Fail(r.rc, "DMA channel has an invalid 'compatible' property",
                                      r.dev)
                            ELSE [rc |-> 0, err |-> "", dev |-> r.dev]

(***************************************************************************)
(* axidma_of_parse_dma_nodes: the counters are cleared, then the loop over *)
(* the dev->num_chans entries of 'dmas' writes each channel into the       *)
(* device as it goes and returns at the first error.                       *)
(***************************************************************************)
\* a variant that leaves the counters as the last call left them
reset_counts_skipped(d) == d

\* the counter initialisation before the loop
reset_counts(d) ==
    [d EXCEPT !.num_dma_tx_chans = 0, !.num_dma_rx_chans = 0,
              !.num_vdma_tx_chans = 0, !.num_vdma_rx_chans = 0]

\* a variant that numbers the channels from one
set_channel_id_from_one(d, i) == [d EXCEPT !.channels[i].channel_id = i + 1]

\* "dev->channels[i].channel_id = i"
set_channel_id(d, i) == [d EXCEPT !.channels[i].channel_id = i]

RECURSIVE parse_dma_nodes_loop(_, _, _)
\* the loop from iteration i on, with the device as the iterations before left it
\* (the code reads args[0] before it tests args_count; with no argument the value
\* read is indeterminate, and the args_count test returns before it is used)
parse_dma_nodes_loop(prop, i, d) ==
    IF i >= d.num_chans THEN [rc |-> 0, err |-> "", dev |-> d]
    ELSE LET ph == of_parse_phandle_with_args(prop, i)
         IN IF ph.rc < 0
            THEN Fail(ph.rc, "Unable to get phandle from the 'dmas' property", d)
            ELSE IF ph.args_count < 1
            THEN Fail(-EINVAL, "Phandle is missing the channel direction argument", d)
            ELSE IF ph.args[1] # 0 /\ ph.args[1] # 1
            THEN Fail(-EINVAL, "Phandle has an invalid channel (argument 0)", d)
            ELSE LET r == axidma_of_parse_channel(ph.np, ph.args[1], i, d)
                 IN IF r.rc < 0 THEN r
                    ELSE parse_dma_nodes_loop(prop, i + 1, set_channel_id(r.dev, i))

parse_dma_nodes(prop, d) == parse_dma_nodes_loop(prop, 0, reset_counts(d))

axidma_of_parse_dma_nodes ==
    /\ LET r == parse_dma_nodes(dmas, dev)
       IN /\ dev' = r.dev
          /\ of_last' = [NoOfCall EXCEPT !.op = "parse_dma_nodes", !.rc = r.rc,
                                         !.err = r.err,
                                         !.parses = IF of_last.parses < 2
                                                    THEN of_last.parses + 1 ELSE 2]
    /\ UNCHANGED <<dma_names, dmas>>

(***************************************************************************)
(* axidma_of_num_channels: the common length of 'dma-names' and 'dmas'.    *)
(***************************************************************************)
\* the return value of axidma_of_num_channels and the message it logs
num_channels_result(names, prop) ==
    IF ~names.present
    THEN [rc |-> -EINVAL, err |-> "Property 'dma-names' is missing"]
    ELSE IF ~prop.present
    THEN [rc |-> -EINVAL, err |-> "Property 'dmas' is missing"]
    ELSE LET num_dma_names == of_property_count_strings(names)
             num_dmas == of_count_phandle_with_args(prop)
         IN IF num_dma_names < 0
            THEN [rc |-> -EINVAL, err |-> "Unable to get the 'dma-names' property length"]
            ELSE IF num_dma_names = 0
            THEN [rc |-> -EINVAL, err |-> "'dma-names' property is empty"]
            ELSE IF num_dmas < 0
            THEN [rc |-> -EINVAL, err |-> "Unable to get the 'dmas' property length"]
            ELSE IF num_dmas = 0
            THEN [rc |-> -EINVAL, err |-> "'dmas' property is empty"]
            ELSE IF num_dma_names # num_dmas
            THEN [rc |-> -EINVAL,
                  err |-> "Length of 'dma-names' and 'dmas' properties differ"]
            ELSE [rc |-> num_dma_names, err |-> ""]

num_channels(names, prop) == num_channels_result(names, prop).rc

axidma_of_num_channels ==
    /\ LET r == num_channels_result(dma_names, dmas)
       IN of_last' = [NoOfCall EXCEPT !.op = "num_channels", !.rc = r.rc, !.err = r.err,
                                      !.parses = of_last.parses]
    /\ UNCHANGED <<dma_names, dmas, dev>>

(***************************************************************************)
(* axidma_of_parse_dma_name: the index'th string of 'dma-names'.           *)
(***************************************************************************)
\* a variant that reads the entry after the one asked for
parse_dma_name_next(names, index) ==
    LET r == of_property_read_string_index(names, index + 1)
    IN IF r.rc < 0
       THEN [rc |-> -EINVAL, err |-> "Unable to read DMA name from the 'dma-names' property",
             str |-> ""]
       ELSE [rc |-> 0, err |-> "", str |-> r.str]

parse_dma_name(names, index) ==
    LET r == of_property_read_string_index(names, index)
    IN IF r.rc < 0
       THEN [rc |-> -EINVAL, err |-> "Unable to read DMA name from the 'dma-names' property",
             str |-> ""]
       ELSE [rc |-> 0, err |-> "", str |-> r.str]

axidma_of_parse_dma_name(index) ==
    /\ LET r == parse_dma_name(dma_names, index)
       IN of_last' = [NoOfCall EXCEPT !.op = "parse_dma_name", !.rc = r.rc,
                                      !.err = r.err, !.index = index, !.name = r.str,
                                      !.parses = of_last.parses]
    /\ UNCHANGED <<dma_names, dmas, dev>>

InitOf ==
    /\ InitChrdev
    /\ dma_base_vaddr = PAGE_OFFSET + 16 * PAGE_SIZE
    /\ dma_names \in {MissingProperty}
                     \cup {Property(SubSeq(NameSeq, 1, n)) : n \in 0 .. MaxChans}
    /\ dmas \in {MissingProperty}
                \cup {Property(list) : list \in SeqsUpTo(RefPool, MaxChans)}
    \* dev->num_chans is a count the caller took from one of the two lists
    /\ dev \in {FreshDev(n) : n \in {Len(dmas.list), Len(dma_names.list)}}
    /\ of_last = NoOfCall

ParseDmaNodes == axidma_of_parse_dma_nodes /\ UNCHANGED chrdev_vars

NumChannels == axidma_of_num_channels /\ UNCHANGED chrdev_vars

ParseDmaName ==
    (\E index \in 0 .. MaxChans : axidma_of_parse_dma_name(index)) /\ UNCHANGED chrdev_vars

NextOf ==
    \/ ParseDmaNodes
    \/ NumChannels
    \/ ParseDmaName

SpecOf == InitOf /\ [][NextOf]_vars

(***************************************************************************)
(* The device's state as the design names it, read off the driver's state. *)
(***************************************************************************)
DeviceState ==
    IF ~Registered THEN "UNINITIALIZED"
    ELSE IF Live = {} THEN "READY"
    ELSE "ATTACHED"

\* physical base address of the buffer region
buffer_base == virt_to_phys(dma_base_vaddr)

\* the step is a handler returning (every return writes a new record to last)
Returned(op) == last' # last /\ last'.op = op

\* after the step file f can be opened: the guard of axidma_open_begin
OpenPossibleAfter(f) == Registered' /\ pc'[f] = "idle" /\ private_data'[f] = "NULL"

\* after the step file f can ask for a mapping: the guard of axidma_mmap
MmapPossibleAfter(f) == pc'[f] = "idle" /\ private_data'[f] # "NULL"

\* the state the session manager owns
session_state == <<axidma_dev, dma_base_vaddr, held, private_data, pc, mapped>>

(***************************************************************************)
(* C1: when the open calls of distinct privileged O_EXCL callers overlap   *)
(* on a device with no live session, once all of them have returned        *)
(* exactly one of them holds the session and the others were refused.      *)
(***************************************************************************)
C1_ExactlyOneRacerWins ==
    (race # {} /\ \A f \in race : pc[f] = "idle")
        => /\ Cardinality(race \cap Live) = 1
           /\ (last.op = "open" /\ last.f \in race /\ last.f \notin Live)
                  => last.ret < 0

(***************************************************************************)
(* C2: at most one session is live; an open issued while another file      *)
(* holds the session fails and leaves the holder unchanged.                *)
(***************************************************************************)
C2_AtMostOneSession ==
    /\ Cardinality(Live) <= 1
    /\ (last.op = "open" /\ last.capable /\ last.excl /\ Live \ {last.f} # {})
           => (last.ret < 0 /\ last.f \notin Live)

(***************************************************************************)
(* C3: a request with offset + length > buffer_length fails without a call *)
(* of remap_pfn_range; a request within the buffer on the live session is  *)
(* passed to remap_pfn_range and succeeds when remap_pfn_range does.       *)
(***************************************************************************)
C3_OutOfRangeRejected ==
    last.op = "mmap" =>
        IF last.pgoff * PAGE_SIZE + last.len > buffer_length
        THEN last.ret < 0 /\ ~last.remap.called
        ELSE (Live = {last.f} /\ DeviceState = "ATTACHED")
                 => (last.remap.called /\ (last.rc = 0 => last.ret = 0))

(***************************************************************************)
(* C4: mmap succeeds only on the file that holds the one live session of   *)
(* a device in ATTACHED; any other request fails and maps nothing.         *)
(***************************************************************************)
C4_OnlyLiveSessionMaps ==
    (last.op = "mmap" /\ ~(Live = {last.f} /\ DeviceState = "ATTACHED"))
        => (last.ret < 0 /\ ~last.remap.called)

(***************************************************************************)
(* C5: every accepted request maps the physical range that starts at       *)
(* buffer_base + offset and has the requested length; requests with        *)
(* different offsets map different physical start addresses.               *)
(***************************************************************************)
C5_RangeStartsAtOffset ==
    /\ (last.op = "mmap" /\ last.ret = 0)
           => /\ last.remap.called
              /\ last.remap.pfn * PAGE_SIZE = buffer_base + last.pgoff * PAGE_SIZE
              /\ last.remap.size = last.len
    /\ \A m1, m2 \in mapped : m1.pgoff # m2.pgoff => m1.pfn # m2.pfn

(***************************************************************************)
(* C6: open without privilege returns -EPERM whatever the O_EXCL flag;     *)
(* privileged open without O_EXCL returns -EINVAL; either way the file     *)
(* records no session, the step changes nothing of the session manager's   *)
(* state, and a correct open of the same file is possible afterwards.      *)
(***************************************************************************)
C6_FailedOpenResult ==
    last.op = "open" =>
        /\ ~last.capable => last.ret = -EPERM
        /\ (last.capable /\ ~last.excl) => last.ret = -EINVAL
        /\ (last.ret < 0 /\ pc[last.f] = "idle") => private_data[last.f] = "NULL"

C6_FailedOpenStep ==
    (Returned("open") /\ last'.ret < 0) =>
        /\ UNCHANGED <<session_state, race>>
        /\ private_data'[last'.f] = "NULL"
        /\ OpenPossibleAfter(last'.f)

C6_FailedOpenLeavesNoSession ==
    [](C6_FailedOpenResult) /\ [][C6_FailedOpenStep]_vars

C6_Witness ==
    /\ last.op = "open" /\ last.capable /\ ~last.excl /\ last.ret = -EINVAL
    /\ Live # {}

(***************************************************************************)
(* C7: release returns 0 and clears the file's private_data; releasing the *)
(* only live session leaves no session live (READY while the device is     *)
(* registered) and the file can be opened again; every open by a           *)
(* privileged O_EXCL caller returns 0 and records the session.             *)
(***************************************************************************)
C7_ReleaseResult ==
    /\ last.op = "release" =>
          /\ last.ret = 0
          /\ pc[last.f] = "idle" => private_data[last.f] = "NULL"
    /\ (last.op = "open" /\ last.capable /\ last.excl) =>
          (last.ret = 0 /\ private_data[last.f] # "NULL")

C7_ReleaseStep ==
    Returned("release") =>
        /\ private_data'[last'.f] = "NULL"
        /\ Registered => OpenPossibleAfter(last'.f)
        /\ Live = {last'.f} => (Live' = {} /\ (Registered => DeviceState' = "READY"))

C7_ReleaseFreesDevice ==
    [](C7_ReleaseResult) /\ [][C7_ReleaseStep]_vars

C7_Witness ==
    last.op = "release" /\ DeviceState = "READY"

(***************************************************************************)
(* C8: the device is torn down only when no session is live, and no open   *)
(* succeeds before axidma_chrdev_init has completed.                       *)
(***************************************************************************)
C8_TeardownOnlyFromReady ==
    /\ last.op = "exit" => Live = {}
    /\ (last.op = "open" /\ last.ret = 0) => reached_ready

(***************************************************************************)
(* C9: when remap_pfn_range fails, mmap returns its error, the step        *)
(* changes nothing of the session manager's state, and the same file can   *)
(* map successfully afterwards.                                            *)
(***************************************************************************)
C9_MapFailedResult ==
    (last.op = "mmap" /\ last.rc < 0) =>
        last.ret = last.rc

C9_MapFailedStep ==
    (Returned("mmap") /\ last'.rc < 0) =>
        /\ UNCHANGED <<session_state, race>>
        /\ MmapPossibleAfter(last'.f)

C9_MapFailedLeavesSession ==
    [](C9_MapFailedResult) /\ [][C9_MapFailedStep]_vars

C9_Witness ==
    /\ last.op = "mmap" /\ last.rc = -EAGAIN /\ last.ret = -EAGAIN
    /\ last.f \in Live /\ DeviceState = "ATTACHED"

(***************************************************************************)
(* C10: when axidma_of_parse_dma_nodes fails on a device tree that passed  *)
(* axidma_of_num_channels (dev->num_chans is the length of both lists),    *)
(* the device holds nothing of the failed attempt: every channel entry and *)
(* every counter is as it was before any channel was parsed.               *)
(***************************************************************************)
C10_FailedParseLeavesNothing ==
    (/\ of_last.op = "parse_dma_nodes"
     /\ of_last.rc < 0
     /\ dev.num_chans = num_channels(dma_names, dmas))
        => dev = FreshDev(dev.num_chans)

(***************************************************************************)
(* The device tree as the design reads it.                                 *)
(***************************************************************************)
\* the step is a parser function returning
OfReturned(op) == of_last' # of_last /\ of_last'.op = op

\* the state holds the result of the call of axidma_of_parse_dma_nodes that
\* returned last
Parsed == of_last.op = "parse_dma_nodes"

\* the device tree passed axidma_of_num_channels and dev->num_chans is its result
Consistent == dev.num_chans = num_channels(dma_names, dmas)

\* the i'th declared channel's entry of 'dmas', i counted from 0
RefAt(i) == dmas.list[i + 1]

\* the declared channels the loop can reach: those that have a 'dmas' entry
Declared == {i \in 0 .. (dev.num_chans - 1) : i < Len(dmas.list)}

\* the fixed vocabulary of type tags and the (type, direction) of each
ValidTags == {"xlnx,axi-dma-mm2s-channel", "xlnx,axi-dma-s2mm-channel",
              "xlnx,axi-vdma-mm2s-channel", "xlnx,axi-vdma-s2mm-channel"}

TagKind(tag) ==
    CASE tag = "xlnx,axi-dma-mm2s-channel" -> <<"AXIDMA_DMA", "AXIDMA_WRITE">>
      [] tag = "xlnx,axi-dma-s2mm-channel" -> <<"AXIDMA_DMA", "AXIDMA_READ">>
      [] tag = "xlnx,axi-vdma-mm2s-channel" -> <<"AXIDMA_VDMA", "AXIDMA_WRITE">>
      [] tag = "xlnx,axi-vdma-s2mm-channel" -> <<"AXIDMA_VDMA", "AXIDMA_READ">>
      [] OTHER -> <<"none", "none">>

\* the entry has at least one argument and the first is 0 or 1
SelectorOk(ref) == Len(ref.args) >= 1 /\ ref.args[1] \in {0, 1}

\* the DMA node of the entry has one or two children
TopologyOk(ref) == Len(ref.np) \in {1, 2}

\* the child the selector names exists
ChildExists(ref) == SelectorOk(ref) /\ TopologyOk(ref) /\ ref.args[1] + 1 <= Len(ref.np)

\* the child the selector names
SelectedChild(ref) == ref.np[ref.args[1] + 1]

\* the child the selector names carries a tag of the vocabulary
TagOk(ref) ==
    /\ ChildExists(ref)
    /\ SelectedChild(ref).prop = "string"
    /\ SelectedChild(ref).compatible \in ValidTags

\* an entry as the design requires it: exactly one argument, 0 or 1
WellFormedRef(ref) == Len(ref.args) = 1 /\ TagOk(ref)

WellFormed == Consistent /\ \A i \in Declared : WellFormedRef(RefAt(i))

\* the (type, direction) of the i'th channel of the device
ChanKind(i) == <<dev.channels[i].type, dev.channels[i].dir>>

\* the channels the last parse resolved, and the index of the first it did not
Resolved == {i \in DOMAIN dev.channels : dev.channels[i].channel_id = i}

FirstUnresolved == Cardinality(Resolved)

SumCounts ==
    dev.num_dma_tx_chans + dev.num_dma_rx_chans
        + dev.num_vdma_tx_chans + dev.num_vdma_rx_chans

\* the number of resolved channels of one (type, direction)
CountKind(type, dir) == Cardinality({i \in Resolved : ChanKind(i) = <<type, dir>>})

(***************************************************************************)
(* C11: on a well-formed device tree with N >= 1 declared channels the     *)
(* parse succeeds and fills exactly the N channels 0..N-1: channel i has   *)
(* channel_id i and the type and direction of the i'th 'dmas' entry, and   *)
(* the four counters sum to N.                                             *)
(***************************************************************************)
C11_DeclarationOrder ==
    (Parsed /\ WellFormed) =>
        /\ of_last.rc = 0
        /\ dev.num_chans >= 1
        /\ DOMAIN dev.channels = 0 .. (dev.num_chans - 1)
        /\ \A i \in DOMAIN dev.channels :
              /\ dev.channels[i].channel_id = i
              /\ ChanKind(i) = TagKind(SelectedChild(RefAt(i)).compatible)
        /\ SumCounts = dev.num_chans

C11_Witness ==
    /\ Parsed /\ WellFormed /\ dev.num_chans = 2
    /\ dev.channels[0].type = "AXIDMA_VDMA" /\ dev.channels[1].type = "AXIDMA_DMA"
    /\ dev.channels[1].channel_id = 1

(***************************************************************************)
(* C12: after a successful parse each of the four counters is the number   *)
(* of resolved channels of its own type and direction.                     *)
(***************************************************************************)
C12_CountersByKind ==
    (Parsed /\ WellFormed /\ of_last.rc = 0) =>
        /\ dev.num_dma_tx_chans = CountKind("AXIDMA_DMA", "AXIDMA_WRITE")
        /\ dev.num_dma_rx_chans = CountKind("AXIDMA_DMA", "AXIDMA_READ")
        /\ dev.num_vdma_tx_chans = CountKind("AXIDMA_VDMA", "AXIDMA_WRITE")
        /\ dev.num_vdma_rx_chans = CountKind("AXIDMA_VDMA", "AXIDMA_READ")

(***************************************************************************)
(* C13: when 'dma-names' and 'dmas' are both present and non-empty and     *)
(* differ in length, axidma_of_num_channels fails with the length message  *)
(* and axidma_of_parse_dma_nodes, asked for the entries of 'dmas', fails   *)
(* too.                                                                    *)
(***************************************************************************)
LengthsDiffer ==
    /\ dma_names.present /\ dmas.present
    /\ Len(dma_names.list) >= 1 /\ Len(dmas.list) >= 1
    /\ Len(dma_names.list) # Len(dmas.list)

C13_BothRejectLengthMismatch ==
    LengthsDiffer =>
        /\ of_last.op = "num_channels" =>
              /\ of_last.rc < 0
              /\ of_last.err = "Length of 'dma-names' and 'dmas' properties differ"
        /\ (Parsed /\ dev.num_chans = Len(dmas.list)) => of_last.rc < 0

(***************************************************************************)
(* C14: every resolved channel has the type and direction the table gives  *)
(* for the tag of the child its entry selects; when the selected child of  *)
(* the first unresolved channel has no tag or a tag outside the table, the *)
(* parse fails with -EINVAL and the message for it, and that channel       *)
(* leaves no entry and increments no counter.                              *)
(***************************************************************************)
UnknownTypeMessages ==
    {"DMA channel is missing the 'compatible' property",
     "Unable to read 'compatible' property",
     "DMA channel has an invalid 'compatible' property"}

C14_TagDecidesKind ==
    Parsed =>
        /\ \A i \in Resolved :
              /\ TagOk(RefAt(i))
              /\ ChanKind(i) = TagKind(SelectedChild(RefAt(i)).compatible)
        /\ \A i \in Declared :
              (ChildExists(RefAt(i)) /\ ~TagOk(RefAt(i))) =>
                  (of_last.rc < 0 /\ i \notin Resolved)
        /\ (/\ FirstUnresolved \in Declared
            /\ ChildExists(RefAt(FirstUnresolved))
            /\ ~TagOk(RefAt(FirstUnresolved)))
              => /\ of_last.rc = -EINVAL
                 /\ of_last.err \in UnknownTypeMessages
                 /\ dev.channels[FirstUnresolved] = NoChan
                 /\ SumCounts = FirstUnresolved

C14_Witness ==
    /\ Parsed /\ Consistent /\ FirstUnresolved = 1 /\ 1 \in Declared
    /\ RefAt(1) = Ref(OddNode, <<0>>)
    /\ of_last.err = "DMA channel has an invalid 'compatible' property"

(***************************************************************************)
(* C15: a declared channel whose selector is outside {0,1} makes the parse *)
(* fail, with the invalid-channel message when it is the first channel to  *)
(* fail; a declared channel whose DMA node has no child or more than two   *)
(* makes the parse fail, with one of the two child-count messages when it  *)
(* is the first to fail; the messages of the two failures differ.          *)
(***************************************************************************)
InvalidArgumentMessages == {"Phandle has an invalid channel (argument 0)"}

InvalidTopologyMessages ==
    {"DMA does not have any channel nodes", "DMA has more than two channel nodes"}

BadSelector(ref) == Len(ref.args) >= 1 /\ ref.args[1] \notin {0, 1}

BadTopology(ref) == SelectorOk(ref) /\ ~TopologyOk(ref)

C16_ExactlyOneArgument ==
    (Parsed /\ Consistent) =>
        \A i \in Declared :
            Len(RefAt(i).args) # 1 => (of_last.rc < 0 /\ i \notin Resolved)

(***************************************************************************)
(* C17: a call of axidma_of_parse_dma_nodes on a device an earlier call    *)
(* has parsed leaves the device, counters included, as it was, and returns *)
(* what the call before it returned.                                       *)
(***************************************************************************)
C17_SecondParseStep ==
    (OfReturned("parse_dma_nodes") /\ of_last.parses >= 1) =>
        /\ dev' = dev
        /\ Parsed => (of_last'.rc = of_last.rc /\ of_last'.err = of_last.err)

C17_ParseTwiceSame == [][C17_SecondParseStep]_vars

C17_Witness ==
    /\ Parsed /\ of_last.parses = 2 /\ of_last.rc = 0
    /\ dev.num_chans = 2 /\ SumCounts = 2

(***************************************************************************)
(* C18: axidma_of_parse_dma_name returns the index'th string of            *)
(* 'dma-names' for an index below the length of the list and fails for an  *)
(* index at or beyond it, whether or not the device has been parsed, and   *)
(* leaves the device as it was.                                            *)
(***************************************************************************)
C18_NameResult ==
    of_last.op = "parse_dma_name" =>
        IF dma_names.present /\ of_last.index < Len(dma_names.list)
        THEN of_last.rc = 0 /\ of_last.name = dma_names.list[of_last.index + 1]
        ELSE /\ of_last.rc < 0
             /\ of_last.err = "Unable to read DMA name from the 'dma-names' property"

C18_NameStep == OfReturned("parse_dma_name") => dev' = dev

C18_NameByIndex == [](C18_NameResult) /\ [][C18_NameStep]_vars

C18_Witness ==
    /\ of_last.op = "parse_dma_name" /\ of_last.parses = 0
    /\ of_last.index = 1 /\ of_last.rc = 0 /\ of_last.name = "rx_channel"

(***************************************************************************)
(* C19: a declared channel that selects child 1 of a DMA node with one     *)
(* child makes the parse fail; when it is the first to fail, it leaves no  *)
(* entry in the channel table and increments no counter.                   *)
(***************************************************************************)
SelectsAbsentChild(ref) ==
    SelectorOk(ref) /\ ref.args[1] = 1 /\ Len(ref.np) = 1

C19_AbsentChildRejected ==
    Parsed =>
        /\ \A i \in Declared :
              SelectsAbsentChild(RefAt(i)) => (of_last.rc < 0 /\ i \notin Resolved)
        /\ (FirstUnresolved \in Declared /\ SelectsAbsentChild(RefAt(FirstUnresolved)))
              => /\ of_last.rc < 0
                 /\ dev.channels[FirstUnresolved] = NoChan
                 /\ SumCounts = FirstUnresolved

C19_Witness ==
    /\ Parsed /\ Consistent /\ FirstUnresolved = 1 /\ 1 \in Declared
    /\ RefAt(1) = Ref(RxOnlyNode, <<1>>)
    /\ of_last.rc < 0

(***************************************************************************)
(* C20: axidma_chrdev_init acquires the region, the class, the device and  *)
(* the character device in that order; when a step fails, it releases what *)
(* the earlier steps acquired, in reverse order, each once, returns the    *)
(* failing step's error and leaves nothing held; when all succeed, it      *)
(* releases nothing and all four are held; axidma_chrdev_exit releases the *)
(* four in reverse order of acquisition and leaves nothing held.           *)
(***************************************************************************)
RECURSIVE Reverse(_)
Reverse(seq) == IF seq = <<>> THEN <<>> ELSE Append(Reverse(Tail(seq)), Head(seq))

C20_AcquireAndUnwind ==
    /\ last.op = "init" =>
          /\ \E k \in 0 .. 4 : last.acq = SubSeq(Resources, 1, k)
          /\ IF Len(last.acq) = 4
             THEN last.ret = 0 /\ last.rel = <<>> /\ held = Range(last.acq)
             ELSE /\ last.ret < 0 /\ last.ret = last.rc
                  /\ last.rel = Reverse(last.acq)
                  /\ held = {}
    /\ last.op = "exit" => (last.rel = Reverse(Resources) /\ held = {})

C20_Witness ==
    /\ last.op = "init" /\ last.ret = -EAGAIN
    /\ last.acq = <<"chrdev_region", "dev_class", "device">>
    /\ last.rel = <<"device", "dev_class", "chrdev_region">>
    /\ reached_ready

====
